---- MODULE Spec2Model ----
(***************************************************************************)
(* Model of app.py: the three Flask handlers bottom_up_process,            *)
(* bfs_dfs_analysis and pagerank_analysis, and the helpers they call.      *)
(*                                                                         *)
(* A payload is the parsed JSON body.  The Mission and OperationalData      *)
(* lists are fixed (MissionList, DataList); the MissionHierarchy and        *)
(* Mission_OperationalData lists vary and hold at most MaxEdges records     *)
(* together.  The handlers validate nothing, so a record may name an        *)
(* identifier in neither list (UnknownId), and its Mission field may name   *)
(* a data asset.  Payload edge lists are enumerated in one canonical order  *)
(* (EdgeList), which fixes the insertion order networkx iterates            *)
(* adjacency in.                                                            *)
(*                                                                         *)
(* numpy/Python floats are modelled as exact reduced fractions <<n, d>>.    *)
(***************************************************************************)
EXTENDS Integers, Sequences, FiniteSets, TLC

\* ------------------------------------------------------------------ bounds
MaxEdges == 3
MaxRank == 2
RecursionLimit == 4

\* ------------------------------------------------------------- identifiers
MissionList == <<"m1", "m2", "m3">>
DataList == <<"d1", "d2">>
UnknownId == "x"

Range(s) == {s[i] : i \in DOMAIN s}

Missions == Range(MissionList)
Data == Range(DataList)
Ids == Missions \cup Data \cup {UnknownId}

IdOrder == MissionList \o DataList \o <<UnknownId>>
Rank(id) == CHOOSE i \in DOMAIN IdOrder : IdOrder[i] = id

\* --------------------------------------------------------------- fractions
RECURSIVE GCD(_, _)
GCD(a, b) == IF b = 0 THEN a ELSE GCD(b, a % b)

Frac(n, d) == LET g == GCD(n, d) IN <<n \div g, d \div g>>
FInt(n) == <<n, 1>>
FAdd(p, q) == Frac(p[1] * q[2] + q[1] * p[2], p[2] * q[2])
FSub(p, q) == Frac(p[1] * q[2] - q[1] * p[2], p[2] * q[2])
FMul(p, q) == Frac(p[1] * q[1], p[2] * q[2])
FDiv(p, q) == Frac(p[1] * q[2], p[2] * q[1])
FLess(p, q) == p[1] * q[2] < q[1] * p[2]

RECURSIVE FSum(_)
FSum(s) == IF s = <<>> THEN FInt(0) ELSE FAdd(s[1], FSum(Tail(s)))

\* ---------------------------------------------------------------- payloads
\* One record of MissionHierarchy is <<ChildMission, ParentMission>>, one
\* record of Mission_OperationalData is <<OperationalData, Mission>>.
HierRecords == (Missions \cup {UnknownId}) \X (Missions \cup {UnknownId})
UsageRecords == (Data \cup {UnknownId}) \X (Missions \cup Data)

RECURSIVE SubsetsUpTo(_, _)
SubsetsUpTo(S, n) ==
  IF n = 0 THEN {{}}
  ELSE LET P == SubsetsUpTo(S, n - 1) IN P \cup {T \cup {e} : T \in P, e \in S}

EdgeLess(e, f) ==
  \/ Rank(e[1]) < Rank(f[1])
  \/ Rank(e[1]) = Rank(f[1]) /\ Rank(e[2]) < Rank(f[2])

RECURSIVE EdgeList(_)
EdgeList(S) ==
  IF S = {} THEN <<>>
  ELSE LET e == CHOOSE e \in S : \A f \in S \ {e} : EdgeLess(e, f)
       IN <<e>> \o EdgeList(S \ {e})

Payloads ==
  {[MissionHierarchy |-> EdgeList(hu[1]), Mission_OperationalData |-> EdgeList(hu[2])] :
     hu \in {x \in SubsetsUpTo(HierRecords, MaxEdges) \X SubsetsUpTo(UsageRecords, MaxEdges) :
               Cardinality(x[1]) + Cardinality(x[2]) <= MaxEdges}}

\* ------------------------------------------------------ networkx DiGraph
\* A graph is its edge list in insertion order plus its explicit nodes.
\* add_edges_from creates a node for every endpoint it has not seen.
RECURSIVE Dedup(_)
Dedup(s) ==
  IF s = <<>> THEN <<>>
  ELSE LET r == Dedup(SubSeq(s, 1, Len(s) - 1))
       IN IF s[Len(s)] \in Range(r) THEN r ELSE Append(r, s[Len(s)])

SelectMap(s, Keep(_), F(_)) ==
  LET RECURSIVE Go(_)
      Go(i) == IF i > Len(s) THEN <<>>
               ELSE IF Keep(s[i]) THEN <<F(s[i])>> \o Go(i + 1) ELSE Go(i + 1)
  IN Go(1)

DiGraph(nodes, edges) == [nodes |-> nodes, edges |-> edges]

GraphNodes(g) == g.nodes \cup {e[1] : e \in Range(g.edges)} \cup {e[2] : e \in Range(g.edges)}

predecessors(g, n) ==
  Dedup(SelectMap(g.edges, LAMBDA e : e[2] = n, LAMBDA e : e[1]))

successors(g, n) ==
  Dedup(SelectMap(g.edges, LAMBDA e : e[1] = n, LAMBDA e : e[2]))

in_degree(g, n) == Len(predecessors(g, n))

\* Vertices reachable from n along one or more edges.
Reach(g, n) ==
  LET E == Range(g.edges)
      RECURSIVE Grow(_)
      Grow(S) == LET T == S \cup {e[2] : e \in {f \in E : f[1] \in S}}
                 IN IF T = S THEN S ELSE Grow(T)
  IN Grow({e[2] : e \in {f \in E : f[1] = n}})

HasCycle(g) == \E n \in GraphNodes(g) : n \in Reach(g, n)

\* ------------------------------------------------------------------ state
VARIABLES
  req,          \* the handler serving the current request, or "idle"
  pc,           \* the handler's position
  input,        \* request.json of the current request
  outcome,      \* "none" while running, "ok" for a 200 response, else the exception raised
  path_set,     \* bottom_up_process: traversal_path is bound
  processed,    \* bottom_up_process: the part of traversal_path already iterated
  matrix,       \* bottom_up_process: matrix, by mission and data identifier
  visited,      \* calculate_depth's default argument: one set per process
  todo,         \* bfs_dfs_analysis / pagerank_analysis: the rest of the outer loop
  criticality_scores,  \* bfs_dfs_analysis: raw scores computed so far
  normalized_scores,   \* bfs_dfs_analysis: normalized scores
  page_rank,    \* pagerank_analysis: nx.pagerank's result
  stack,        \* get_all_dependencies: the frames of the recursion, innermost last
  dependencies, \* pagerank_analysis: what get_all_dependencies returned
  adjusted_scores,        \* pagerank_analysis: the current mission's scores
  total_adjusted_score,   \* pagerank_analysis: their sum before normalization
  missions_importance_scores  \* pagerank_analysis: adjusted_scores per mission

vars == <<req, pc, input, outcome, path_set, processed, matrix, visited, todo,
          criticality_scores, normalized_scores, page_rank, stack, dependencies,
          adjusted_scores, total_adjusted_score, missions_importance_scores>>

buVars == <<path_set, processed, matrix>>
bfsVars == <<criticality_scores, normalized_scores>>
prVars == <<page_rank, stack, dependencies, adjusted_scores, total_adjusted_score,
            missions_importance_scores>>

EmptyPayload == [MissionHierarchy |-> <<>>, Mission_OperationalData |-> <<>>]
ZeroRow == [d \in Data |-> FInt(0)]
ZeroMatrix == [m \in Missions |-> ZeroRow]
NoScores == [d \in {} |-> FInt(0)]

Init ==
  /\ req = "idle"
  /\ pc = "idle"
  /\ input = EmptyPayload
  /\ outcome = "none"
  /\ path_set = FALSE
  /\ processed = {}
  /\ matrix = ZeroMatrix
  /\ visited = {}
  /\ todo = <<>>
  /\ criticality_scores = NoScores
  /\ normalized_scores = NoScores
  /\ page_rank = NoScores
  /\ stack = <<>>
  /\ dependencies = {}
  /\ adjusted_scores = NoScores
  /\ total_adjusted_score = FInt(0)
  /\ missions_importance_scores = NoScores

\* ------------------------------------------------------- bottom_up_process
Swap(e) == <<e[2], e[1]>>
SeqMap(s, F(_)) == [i \in DOMAIN s |-> F(s[i])]

mission_hierarchy(p) == p.MissionHierarchy
mission_data_relations(p) == p.Mission_OperationalData

\* G: all nodes, edges child -> parent and data -> mission.
BuG(p) == DiGraph(Missions \cup Data, mission_hierarchy(p) \o mission_data_relations(p))
\* M: mission nodes, edges child -> parent.
BuM(p) == DiGraph(Missions, mission_hierarchy(p))

find_leaf_mission_nodes(graph) == {n \in GraphNodes(graph) : in_degree(graph, n) = 0}

\* Lines 36-80: parse, build G and M, try the topological sort.
BottomUpReceive(p) ==
  /\ req = "idle"
  /\ req' = "bottom_up"
  /\ pc' = "loop"
  /\ input' = p
  /\ outcome' = "none"
  /\ path_set' = ~HasCycle(BuM(p))
  /\ processed' = {}
  /\ matrix' = ZeroMatrix
  /\ UNCHANGED <<visited, todo, bfsVars, prVars>>

\* Line 83 when the except branch of lines 72-73 ran: traversal_path is unbound.
BottomUpLoopUnbound ==
  /\ req = "bottom_up" /\ pc = "loop" /\ ~path_set
  /\ outcome' = "UnboundLocalError"
  /\ pc' = "done"
  /\ UNCHANGED <<req, input, buVars, visited, todo, bfsVars, prVars>>

\* LeafRow reading the graph the wrong way round (successors for predecessors).
LeafRowSuccessors(p, m_uuid) ==
  LET connected_data_nodes ==
        {n \in Range(successors(BuG(p), m_uuid)) : n \in Data}
  IN [d \in Data |-> IF d \in connected_data_nodes THEN FInt(100) ELSE matrix[m_uuid][d]]

LeafRow(p, m_uuid) ==
  LET connected_data_nodes ==
        {n \in Range(predecessors(BuG(p), m_uuid)) : n \in Data}
  IN [d \in Data |-> IF d \in connected_data_nodes THEN FInt(100) ELSE matrix[m_uuid][d]]

\* MeanRow without the division of line 101.
MeanRowSum(p, m_uuid) ==
  LET children == SelectMap(predecessors(BuM(p), m_uuid), LAMBDA n : n \in Missions, LAMBDA n : n)
  IN IF children # <<>>
     THEN [d \in Data |-> FSum(SeqMap(children, LAMBDA c : matrix[c][d]))]
     ELSE ZeroRow

MeanRow(p, m_uuid) ==
  LET children == SelectMap(predecessors(BuM(p), m_uuid), LAMBDA n : n \in Missions, LAMBDA n : n)
  IN IF children # <<>>
     THEN [d \in Data |->
            FDiv(FSum(SeqMap(children, LAMBDA c : matrix[c][d])), FInt(Len(children)))]
     ELSE ZeroRow

\* One iteration of the loop of lines 83-105.  traversal_path is some
\* topological order of M; its next element is any node all of whose
\* predecessors in M came earlier.
BottomUpIter(m_uuid) ==
  /\ req = "bottom_up" /\ pc = "loop" /\ path_set
  /\ m_uuid \in GraphNodes(BuM(input)) \ processed
  /\ Range(predecessors(BuM(input), m_uuid)) \subseteq processed
  /\ IF m_uuid \notin Missions
     THEN /\ outcome' = "KeyError"
          /\ pc' = "done"
          /\ UNCHANGED <<processed, matrix>>
     ELSE /\ processed' = processed \cup {m_uuid}
          /\ matrix' = [matrix EXCEPT ![m_uuid] =
                          IF m_uuid \in find_leaf_mission_nodes(BuM(input))
                          THEN LeafRow(input, m_uuid)
                          ELSE MeanRow(input, m_uuid)]
          /\ UNCHANGED <<outcome, pc>>
  /\ UNCHANGED <<req, input, path_set, visited, todo, bfsVars, prVars>>

\* Lines 108-136: the loop is exhausted, the artifacts are written, 200.
BottomUpRespond ==
  /\ req = "bottom_up" /\ pc = "loop" /\ path_set
  /\ processed = GraphNodes(BuM(input))
  /\ outcome' = "ok"
  /\ pc' = "done"
  /\ UNCHANGED <<req, input, buVars, visited, todo, bfsVars, prVars>>

\* -------------------------------------------------------- bfs_dfs_analysis
Max(S) == CHOOSE a \in S : \A b \in S : b <= a
FMax(S) == CHOOSE a \in S : \A b \in S : ~FLess(a, b)
FMin(S) == CHOOSE a \in S : \A b \in S : ~FLess(b, a)

\* calculate_depth(graph, node_id, visited): the depth returned and the set
\* `visited` as the call leaves it (the set is mutated in place).
RECURSIVE calculate_depth(_, _, _)
calculate_depth(graph, node_id, vis) ==
  IF node_id \in vis THEN [depth |-> 0, visited |-> vis]
  ELSE LET preds == predecessors(graph, node_id)
           \* the list comprehension of line 144, left to right
           RECURSIVE Comp(_, _, _)
           Comp(i, v, depths) ==
             IF i > Len(preds) THEN [depths |-> depths, visited |-> v]
             ELSE LET r == calculate_depth(graph, preds[i], v)
                  IN Comp(i + 1, r.visited, depths \cup {r.depth})
           c == Comp(1, vis \cup {node_id}, {})
       IN [depth |-> IF c.depths # {} THEN 1 + Max(c.depths) ELSE 0,
           visited |-> c.visited]

calculate_breadth(graph, node_id) == Len(successors(graph, node_id))

\* G of bfs_dfs_analysis: edges child -> parent and data -> mission.
BfsG(p) == DiGraph(Missions \cup Data, mission_hierarchy(p) \o mission_data_relations(p))

RawScore(breadth, depth) == FAdd(FInt(breadth), Frac(1, depth + 1))

NormalizeCriticality(scores) ==
  LET vals == {scores[n] : n \in DOMAIN scores}
      max_score == IF vals = {} THEN FInt(1) ELSE FMax(vals)
      min_score == IF vals = {} THEN FInt(0) ELSE FMin(vals)
  IN [n \in DOMAIN scores |->
        IF FLess(min_score, max_score)
        THEN FAdd(FInt(1), FDiv(FMul(FInt(3), FSub(scores[n], min_score)),
                                FSub(max_score, min_score)))
        ELSE FInt(1)]

\* Lines 159-179.
BfsReceive(p) ==
  /\ req = "idle"
  /\ req' = "bfs_dfs"
  /\ pc' = "loop"
  /\ input' = p
  /\ outcome' = "none"
  /\ todo' = DataList
  /\ criticality_scores' = NoScores
  /\ normalized_scores' = NoScores
  /\ UNCHANGED <<visited, buVars, prVars>>

\* One iteration of the loop of lines 180-184.  calculate_depth is called
\* without its third argument, so it works on the default set.
BfsIter ==
  /\ req = "bfs_dfs" /\ pc = "loop" /\ todo # <<>>
  /\ LET node_id == Head(todo)
         r == calculate_depth(BfsG(input), node_id, visited)
         breadth == calculate_breadth(BfsG(input), node_id)
     IN /\ visited' = r.visited
        /\ criticality_scores' =
             [n \in DOMAIN criticality_scores \cup {node_id} |->
                IF n = node_id THEN RawScore(breadth, r.depth) ELSE criticality_scores[n]]
  /\ todo' = Tail(todo)
  /\ UNCHANGED <<req, pc, input, outcome, normalized_scores, buVars, prVars>>

\* Lines 186-210.
BfsRespond ==
  /\ req = "bfs_dfs" /\ pc = "loop" /\ todo = <<>>
  /\ normalized_scores' = NormalizeCriticality(criticality_scores)
  /\ outcome' = "ok"
  /\ pc' = "done"
  /\ UNCHANGED <<req, input, visited, todo, criticality_scores, buVars, prVars>>

\* ------------------------------------------------------- pagerank_analysis
\* G of pagerank_analysis: edges parent -> child and mission -> data.
PrG(p) ==
  DiGraph(Missions \cup Data,
          SeqMap(mission_hierarchy(p), Swap) \o SeqMap(mission_data_relations(p), Swap))

\* nx.pagerank(G, alpha=0.85) is library code: some positive value per node.
\* Only the values of operational-data nodes are read (lines 339-343).
PageRanks == [Data -> 1..MaxRank]

\* The breadth-first search of lines 289-302, over a queue of paths.
RECURSIVE ShortestPathLoop(_, _, _, _)
ShortestPathLoop(graph, queue, seen, end) ==
  IF queue = <<>> THEN <<>>
  ELSE LET path == Head(queue)
           node == path[Len(path)]
       IN IF node = end THEN path
          ELSE IF node \notin seen
          THEN ShortestPathLoop(graph,
                 Tail(queue) \o SeqMap(successors(graph, node), LAMBDA nb : Append(path, nb)),
                 seen \cup {node}, end)
          ELSE ShortestPathLoop(graph, Tail(queue), seen, end)

find_shortest_path(graph, start, end) == ShortestPathLoop(graph, <<<<start>>>>, {}, end)

\* adjust_score_for_path_length without the decay.
AdjustNoDecay(score, path_length) ==
  IF path_length > 0 THEN score ELSE FInt(0)

adjust_score_for_path_length(score, path_length) ==
  IF path_length > 0 THEN FDiv(score, FInt(path_length)) ELSE FInt(0)

\* get_all_dependencies(graph, node_id) as frame number `depth` of the
\* interpreter's stack: the set returned, or RecursionError when the
\* recursion would pass RecursionLimit frames.
RECURSIVE GetAllDependencies(_, _, _)
GetAllDependencies(graph, node_id, depth) ==
  IF depth > RecursionLimit THEN [raised |-> TRUE, deps |-> {}]
  ELSE LET direct_dependencies == successors(graph, node_id)
           sub == [i \in DOMAIN direct_dependencies |->
                     GetAllDependencies(graph, direct_dependencies[i], depth + 1)]
       IN IF \E i \in DOMAIN sub : sub[i].raised
          THEN [raised |-> TRUE, deps |-> {}]
          ELSE [raised |-> FALSE,
                deps |-> Range(direct_dependencies) \cup UNION {sub[i].deps : i \in DOMAIN sub}]

\* Lines 334-346 for one mission: the scores before normalization.
AdjustedScores(p, pr, mission_uuid, unique_dependencies) ==
  [node_id \in unique_dependencies \cap Data |->
     adjust_score_for_path_length(FInt(pr[node_id]),
                                  Len(find_shortest_path(PrG(p), mission_uuid, node_id)))]

ScoreTotal(scores) ==
  LET RECURSIVE Sum(_)
      Sum(S) == IF S = {} THEN FInt(0)
                ELSE LET n == CHOOSE n \in S : TRUE IN FAdd(scores[n], Sum(S \ {n}))
  IN Sum(DOMAIN scores)

\* NormalizeScores with the guard of line 349 inverted: it always divides by 1.
NormalizeScoresByOne(scores, total) ==
  [node_id \in DOMAIN scores |->
     FDiv(scores[node_id], IF FLess(total, FInt(0)) THEN total ELSE FInt(1))]

\* Lines 348-349.
NormalizeScores(scores, total) ==
  [node_id \in DOMAIN scores |->
     FDiv(scores[node_id], IF FLess(FInt(0), total) THEN total ELSE FInt(1))]

\* Lines 268-286 and 328.
PrReceive(p, pr) ==
  /\ req = "idle"
  /\ req' = "pagerank"
  /\ pc' = "loop"
  /\ input' = p
  /\ outcome' = "none"
  /\ page_rank' = pr
  /\ todo' = MissionList
  /\ stack' = <<>>
  /\ dependencies' = {}
  /\ adjusted_scores' = NoScores
  /\ total_adjusted_score' = FInt(0)
  /\ missions_importance_scores' = NoScores
  /\ UNCHANGED <<visited, buVars, bfsVars>>

\* Lines 329-346 for the next mission: its closure, then its scores.  A
\* RecursionError leaves the handler.
PrWeigh ==
  /\ req = "pagerank" /\ pc = "loop" /\ todo # <<>>
  /\ LET mission_uuid == Head(todo)
         r == GetAllDependencies(PrG(input), mission_uuid, 1)
     IN IF r.raised
        THEN /\ outcome' = "RecursionError"
             /\ pc' = "done"
             /\ UNCHANGED <<dependencies, adjusted_scores, total_adjusted_score>>
        ELSE /\ dependencies' = r.deps
             /\ adjusted_scores' = AdjustedScores(input, page_rank, mission_uuid, r.deps)
             /\ total_adjusted_score' =
                  ScoreTotal(AdjustedScores(input, page_rank, mission_uuid, r.deps))
             /\ pc' = "normalize"
             /\ UNCHANGED outcome
  /\ UNCHANGED <<req, input, visited, todo, page_rank, stack,
                 missions_importance_scores, buVars, bfsVars>>

\* Lines 348-351.
PrNormalize ==
  /\ req = "pagerank" /\ pc = "normalize"
  /\ adjusted_scores' = NormalizeScores(adjusted_scores, total_adjusted_score)
  /\ missions_importance_scores' =
       [m \in DOMAIN missions_importance_scores \cup {Head(todo)} |->
          IF m = Head(todo) THEN NormalizeScores(adjusted_scores, total_adjusted_score)
          ELSE missions_importance_scores[m]]
  /\ todo' = Tail(todo)
  /\ pc' = "loop"
  /\ UNCHANGED <<req, input, outcome, visited, page_rank, stack, dependencies,
                 total_adjusted_score, buVars, bfsVars>>

\* Lines 354-392.
PrRespond ==
  /\ req = "pagerank" /\ pc = "loop" /\ todo = <<>>
  /\ outcome' = "ok"
  /\ pc' = "done"
  /\ UNCHANGED <<req, input, visited, todo, prVars, buVars, bfsVars>>

\* ---------------------------------- get_all_dependencies, call by call
\* The recursion of lines 315-324 one call or return at a time.  A frame is
\* a call's locals and the position of its for loop.  The interpreter
\* raises RecursionError instead of entering a frame past RecursionLimit.
\* The call of line 331 is frame 1, for the mission at the head of todo.
\* NewFrame with all_dependencies starting empty (line 319 without its argument).
NewFrameEmpty(graph, node_id) ==
  [node_id |-> node_id,
   direct_dependencies |-> successors(graph, node_id),
   i |-> 1,
   all_dependencies |-> {}]

NewFrame(graph, node_id) ==
  [node_id |-> node_id,
   direct_dependencies |-> successors(graph, node_id),
   i |-> 1,
   all_dependencies |-> Range(successors(graph, node_id))]

Top == stack[Len(stack)]

\* Line 321 has a next direct dependency and the interpreter has room for
\* the call of line 322.
ClosureCallGuard ==
  /\ req = "closure" /\ pc = "closure" /\ stack # <<>>
  /\ Top.i <= Len(Top.direct_dependencies)
  /\ Len(stack) < RecursionLimit

\* Line 321 has a next direct dependency and the interpreter's stack is full.
ClosureRaiseGuard ==
  /\ req = "closure" /\ pc = "closure" /\ stack # <<>>
  /\ Top.i <= Len(Top.direct_dependencies)
  /\ Len(stack) >= RecursionLimit

\* The loop of line 321 is exhausted.
ClosureReturnGuard ==
  /\ req = "closure" /\ pc = "closure" /\ stack # <<>>
  /\ Top.i > Len(Top.direct_dependencies)

\* Line 322: the call for the next direct dependency.
ClosureCall ==
  /\ ClosureCallGuard
  /\ stack' = Append(stack, NewFrame(PrG(input), Top.direct_dependencies[Top.i]))
  /\ UNCHANGED <<req, pc, input, outcome, visited, todo, page_rank, dependencies,
                 adjusted_scores, total_adjusted_score, missions_importance_scores,
                 buVars, bfsVars>>

\* Line 322 with the stack full: RecursionError unwinds every frame.
ClosureRaise ==
  /\ ClosureRaiseGuard
  /\ stack' = <<>>
  /\ outcome' = "RecursionError"
  /\ pc' = "done"
  /\ UNCHANGED <<req, input, visited, todo, page_rank, dependencies,
                 adjusted_scores, total_adjusted_score, missions_importance_scores,
                 buVars, bfsVars>>

\* Line 324: the loop is over; the caller's update of line 322 takes the
\* result, or line 331 does.
ClosureReturn ==
  /\ ClosureReturnGuard
  /\ IF Len(stack) > 1
     THEN /\ stack' = [SubSeq(stack, 1, Len(stack) - 1) EXCEPT ![Len(stack) - 1] =
                         [@ EXCEPT !.all_dependencies = @ \cup Top.all_dependencies,
                                   !.i = @ + 1]]
          /\ UNCHANGED <<pc, outcome, dependencies>>
     ELSE /\ stack' = <<>>
          /\ dependencies' = Top.all_dependencies
          /\ outcome' = "ok"
          /\ pc' = "done"
  /\ UNCHANGED <<req, input, visited, todo, page_rank,
                 adjusted_scores, total_adjusted_score, missions_importance_scores,
                 buVars, bfsVars>>

InitClosure ==
  /\ req = "closure"
  /\ pc = "enter"
  /\ input = EmptyPayload
  /\ todo = <<>>
  /\ stack = <<>>
  /\ outcome = "none"
  /\ path_set = FALSE
  /\ processed = {}
  /\ matrix = ZeroMatrix
  /\ visited = {}
  /\ criticality_scores = NoScores
  /\ normalized_scores = NoScores
  /\ page_rank = NoScores
  /\ dependencies = {}
  /\ adjusted_scores = NoScores
  /\ total_adjusted_score = FInt(0)
  /\ missions_importance_scores = NoScores

\* Line 331: the call get_all_dependencies(G, mission_uuid), frame 1.
ClosureEnter(p, mission_uuid) ==
  /\ req = "closure" /\ pc = "enter"
  /\ pc' = "closure"
  /\ input' = p
  /\ todo' = <<mission_uuid>>
  /\ stack' = <<NewFrame(PrG(p), mission_uuid)>>
  /\ UNCHANGED <<req, outcome, visited, page_rank, dependencies,
                 adjusted_scores, total_adjusted_score, missions_importance_scores,
                 buVars, bfsVars>>

ClosureNext ==
  \/ pc = "enter" /\ \E p \in Payloads, m \in Missions : ClosureEnter(p, m)
  \/ ClosureCall
  \/ ClosureRaise
  \/ ClosureReturn

SpecClosure == InitClosure /\ [][ClosureNext]_vars /\ WF_vars(ClosureNext)

\* The handler returns (or Flask answers 500): its locals are gone, the
\* module-level state stays.
Return ==
  /\ pc = "done"
  /\ req' = "idle"
  /\ pc' = "idle"
  /\ input' = EmptyPayload
  /\ outcome' = "none"
  /\ path_set' = FALSE
  /\ processed' = {}
  /\ matrix' = ZeroMatrix
  /\ todo' = <<>>
  /\ criticality_scores' = NoScores
  /\ normalized_scores' = NoScores
  /\ page_rank' = NoScores
  /\ stack' = <<>>
  /\ dependencies' = {}
  /\ adjusted_scores' = NoScores
  /\ total_adjusted_score' = FInt(0)
  /\ missions_importance_scores' = NoScores
  /\ UNCHANGED visited

BottomUpNext ==
  \/ req = "idle" /\ \E p \in Payloads : BottomUpReceive(p)
  \/ BottomUpLoopUnbound
  \/ req = "bottom_up" /\ \E m_uuid \in GraphNodes(BuM(input)) : BottomUpIter(m_uuid)
  \/ BottomUpRespond
  \/ Return

SpecBottomUp == Init /\ [][BottomUpNext]_vars

BfsNext ==
  \/ req = "idle" /\ \E p \in Payloads : BfsReceive(p)
  \/ BfsIter
  \/ BfsRespond
  \/ Return

SpecCriticality == Init /\ [][BfsNext]_vars

PrNext ==
  \/ req = "idle" /\ \E p \in Payloads, pr \in PageRanks : PrReceive(p, pr)
  \/ PrWeigh
  \/ PrNormalize
  \/ PrRespond
  \/ Return

SpecImportance == Init /\ [][PrNext]_vars

Next == BottomUpNext \/ BfsNext \/ PrNext

Spec == Init /\ [][Next]_vars

\* ----------------------------------------------------------- properties
\* What the claims are stated with, each defined from the payload alone.

\* The direct hierarchy children of mission m: the ChildMission of every
\* record whose ParentMission is m.
HierChildren(p, m) == {e[1] : e \in {f \in Range(p.MissionHierarchy) : f[2] = m}}

\* The data assets linked to mission m by a usage record.
UsedData(p, m) == {e[1] : e \in {f \in Range(p.Mission_OperationalData) : f[2] = m}} \cap Data

HierarchyCyclic(p) == HasCycle(DiGraph({}, p.MissionHierarchy))

NamesUnknownId(p) ==
  \E e \in Range(p.MissionHierarchy) \cup Range(p.Mission_OperationalData) :
    UnknownId \in {e[1], e[2]}

SetSum(S, F(_)) ==
  LET RECURSIVE Sum(_)
      Sum(T) == IF T = {} THEN FInt(0)
                ELSE LET x == CHOOSE x \in T : TRUE IN FAdd(F(x), Sum(T \ {x}))
  IN Sum(S)

\* C1: once the bottom-up computation has completed, the row of every
\* mission with at least one hierarchy child is the element-wise arithmetic
\* mean of its direct children's rows.
C1_MeanOfChildren ==
  (req = "bottom_up" /\ outcome = "ok") =>
    \A m \in Missions :
      LET children == HierChildren(input, m)
      IN children # {} =>
           /\ children \subseteq Missions
           /\ \A d \in Data :
                FMul(matrix[m][d], FInt(Cardinality(children)))
                  = SetSum(children, LAMBDA c : matrix[c][d])

\* C1's case: a completed run in which a mission with two children, whose
\* rows differ, holds their mean (50 where one child has 100, the other 0).
C1_Witness ==
  /\ req = "bottom_up" /\ outcome = "ok"
  /\ \E m \in Missions, d \in Data :
       /\ Cardinality(HierChildren(input, m)) = 2
       /\ matrix[m][d] = FInt(50)

\* C2: a payload whose hierarchy records (all between listed missions)
\* form a cycle ends in an explicit CyclicHierarchy error, in
\* bottom_up_process and in bfs_dfs_analysis.
C2_CycleRejected ==
  (/\ req \in {"bottom_up", "bfs_dfs"} /\ pc = "done"
   /\ HierarchyCyclic(input) /\ ~NamesUnknownId(input))
    => outcome = "CyclicHierarchy"

\* C3: a payload with a record naming an unknown identifier is rejected
\* with MalformedInput: no score is written for it and the handler does
\* not answer 200.
C3_UnknownIdRejected ==
  (req # "idle" /\ pc = "done" /\ NamesUnknownId(input))
    => /\ outcome = "MalformedInput"
       /\ matrix = ZeroMatrix
       /\ criticality_scores = NoScores
       /\ missions_importance_scores = NoScores

\* C4: the scores stored for a mission sum to 1 when an operational-data
\* vertex is reachable from it; when none is, the weight sum is 0 and the
\* score map is empty.
C4_ScoresSumToOne ==
  /\ \A m \in DOMAIN missions_importance_scores :
       IF Reach(PrG(input), m) \cap Data # {}
       THEN ScoreTotal(missions_importance_scores[m]) = FInt(1)
       ELSE DOMAIN missions_importance_scores[m] = {}
  /\ (req = "pagerank" /\ pc = "normalize" /\ Reach(PrG(input), Head(todo)) \cap Data = {})
       => total_adjusted_score = FInt(0)

\* C4's case: one mission stored with two data assets at different scores,
\* another stored with none.
C4_Witness ==
  \E m, n \in DOMAIN missions_importance_scores :
    /\ DOMAIN missions_importance_scores[m] = Data
    /\ \E d, e \in Data : FLess(missions_importance_scores[m][d],
                                 missions_importance_scores[m][e])
    /\ DOMAIN missions_importance_scores[n] = {}

\* The scores bfs_dfs_analysis computes in a fresh process: calculate_depth
\* starting from an empty visited set.
FreshScores(p) ==
  LET RECURSIVE Go(_, _, _)
      Go(rest, vis, scores) ==
        IF rest = <<>> THEN scores
        ELSE LET r == calculate_depth(BfsG(p), Head(rest), vis)
             IN Go(Tail(rest), r.visited,
                   [n \in DOMAIN scores \cup {Head(rest)} |->
                      IF n = Head(rest)
                      THEN RawScore(calculate_breadth(BfsG(p), n), r.depth)
                      ELSE scores[n]])
  IN Go(DataList, {}, NoScores)

\* C5: whatever requests came before, bfs_dfs_analysis answers a payload
\* (naming listed identifiers only) with the raw and normalized scores a
\* fresh process computes for it.
C5_SameAsFresh ==
  (req = "bfs_dfs" /\ pc = "done" /\ ~NamesUnknownId(input)) =>
    /\ criticality_scores = FreshScores(input)
    /\ normalized_scores = NormalizeCriticality(FreshScores(input))

\* C6: the row of a processed leaf mission (no hierarchy child) holds 100
\* in the columns of the data linked to it by a usage record, 0 elsewhere.
C6_LeafRows ==
  req = "bottom_up" =>
    \A m \in processed \cup (IF outcome = "ok" THEN Missions ELSE {}) :
      HierChildren(input, m) = {} =>
        \A d \in Data :
          matrix[m][d] = IF d \in UsedData(input, m) THEN FInt(100) ELSE FInt(0)

\* C6's case: a completed run with a leaf that uses exactly one data asset
\* and a leaf that uses none.
C6_Witness ==
  /\ req = "bottom_up" /\ outcome = "ok"
  /\ \E m, n \in Missions :
       /\ HierChildren(input, m) = {} /\ HierChildren(input, n) = {}
       /\ Cardinality(UsedData(input, m)) = 1
       /\ UsedData(input, n) = {}
       /\ \E d \in Data : matrix[m][d] = FInt(100)

\* C7: every top-level call of calculate_depth starts from an empty
\* visited set.
C7_VisitedStartsEmpty ==
  (req = "bfs_dfs" /\ pc = "loop" /\ todo # <<>>) => visited = {}

\* depth(v) = 0 without an incoming edge, else 1 + the greatest depth of
\* the sources of v's incoming edges (acyclic graphs).
RECURSIVE RefDepth(_, _)
RefDepth(g, v) ==
  LET srcs == {e[1] : e \in {f \in Range(g.edges) : f[2] = v}}
  IN IF srcs = {} THEN 0 ELSE 1 + Max({RefDepth(g, u) : u \in srcs})

\* C8: in an acyclic combined graph (of listed identifiers only) the raw
\* score of every data vertex is built from its reference depth.
C8_DepthIsReference ==
  (req = "bfs_dfs" /\ ~HasCycle(BfsG(input)) /\ ~NamesUnknownId(input)) =>
    \A v \in DOMAIN criticality_scores :
      criticality_scores[v]
        = RawScore(calculate_breadth(BfsG(input), v), RefDepth(BfsG(input), v))

\* The number of edges on a shortest path from a to b (b reachable from a).
Dist(g, a, b) ==
  LET RECURSIVE Layer(_, _)
      Layer(S, k) ==
        IF b \in S THEN k
        ELSE Layer(S \cup {e[2] : e \in {f \in Range(g.edges) : f[1] \in S}}, k + 1)
  IN Layer({a}, 0)

Pow(b, n) == LET RECURSIVE P(_)
                 P(k) == IF k = 0 THEN 1 ELSE b * P(k - 1)
             IN P(n)

ClosureMeasure ==
  IF pc = "enter" THEN Pow(MaxEdges + 2, RecursionLimit + 1) * (RecursionLimit + 2)
  ELSE IF pc = "done" THEN 0
  ELSE LET left(j) == Len(stack[j].direct_dependencies) - stack[j].i
                        + (IF j = Len(stack) THEN 1 ELSE 0)
           RECURSIVE Digits(_)
           Digits(j) == IF j > Len(stack) THEN 0
                        ELSE left(j) * Pow(MaxEdges + 2, RecursionLimit - j) + Digits(j + 1)
       IN Digits(1) * (RecursionLimit + 2) + Len(stack)

\* C10: the closure computation for a mission finishes: until it is done
\* one of its steps can be taken and every step lowers ClosureMeasure, a
\* natural number.  It ends with the set of vertices reachable from the mission or
\* with RecursionError, and never holds more than RecursionLimit frames.
C10_ClosureFinishes ==
  /\ [][ClosureMeasure' < ClosureMeasure]_vars
  /\ [](ClosureMeasure >= 0)
  /\ [](pc # "done" => \/ pc = "enter"
                        \/ ClosureCallGuard
                        \/ ClosureRaiseGuard
                        \/ ClosureReturnGuard)
  /\ [](Len(stack) <= RecursionLimit)
  /\ [](pc = "done" =>
          \/ outcome = "RecursionError"
          \/ outcome = "ok" /\ dependencies = Reach(PrG(input), Head(todo)))

\* The same as a liveness property, under the weak fairness of SpecClosure.
ClosureEventuallyDone == <>(pc = "done")

\* C10's case: a mission that reaches a cycle, its closure ended by
\* RecursionError.
C10_Witness ==
  /\ req = "closure" /\ pc = "done" /\ outcome = "RecursionError"
  /\ \E n \in Reach(PrG(input), Head(todo)) : n \in Reach(PrG(input), n)

\* The call-by-call recursion and GetAllDependencies agree.
ClosureAgrees ==
  pc = "done" =>
    LET r == GetAllDependencies(PrG(input), Head(todo), 1)
    IN /\ r.raised <=> outcome = "RecursionError"
       /\ ~r.raised => dependencies = r.deps

====
